---------------------------- MODULE Spec2Model ----------------------------
(***************************************************************************)
(* Pull-request Conversation page (web/src/pages/PullRequest/Conversation) *)
(* of gitness: the activityBlocks assembler, the comment mutation          *)
(* handlers and the state they share.                                      *)
(***************************************************************************)
EXTENDS Integers, Sequences, FiniteSets, TLC

(***************************************************************************)
(* Bounds of the model.                                                    *)
(***************************************************************************)
\* longest fetched activity list that is enumerated
MaxFetched == 3
\* largest number of records in the draft buffer that is enumerated
MaxDrafts == 2

\* handler invocations (top-level submissions and thread actions) per run
MaxCalls == 2
MaxBoxes == 2
MaxUpserts == 3

\* `edited` timestamps: two values give ties and inversions against fetch order
Timestamps == {1, 2}

(***************************************************************************)
(* TypesPullReqActivity.  parent_id 0 stands for an absent parent_id: the  *)
(* code tests it with `!activity.parent_id`, which cannot tell them apart. *)
(***************************************************************************)
NoParent == 0

KindComment == "comment"
KindSystem == "system"

TypeComment == "comment"
TypeCodeComment == "code-comment"
TITLE_CHANGE == "title-change"
MERGE == "merge"

Activity(id, parent, kind, type, edited, text) ==
    [id |-> id, parent_id |-> parent, kind |-> kind, type |-> type,
     created |-> 1, edited |-> edited, text |-> text, author |-> "dev"]

(***************************************************************************)
(* The state.                                                              *)
(*   activities   useGet data: {} while undefined, {list} once fetched     *)
(*   newComments  the draft buffer (useState)                              *)
(*   blocks       the memoized activityBlocks of the last render           *)
(*   pc           "input"/"rendered" for a single run of the assembler,    *)
(*                "mounted" for the running component                      *)
(*   commentCreated  the 'just created' flag (useState)                    *)
(*   fetching     a GET of the activities is in flight                     *)
(*   calls        the handleAction invocations, in the order they began:   *)
(*                their locals, what they captured, their position         *)
(*   server       the backend's activity list of the pull request          *)
(*   clock        the backend's next id / timestamp                        *)
(*   merged       the pull request has been merged                         *)
(*   pending      the delay of the highlight timer that is scheduled and   *)
(*                has neither fired nor been cleared, 0 when there is none *)
(*   timeoutId    the timeoutId variable of the highlight effect's         *)
(*                closure, named by the delay of the timer it identifies   *)
(*   views        what the SystemBox of each displayed block has rendered  *)
(*   checks       the rows of the checks table (CheckStore)                *)
(*   checkSeq     the next check_id the table generates                    *)
(*   lastUpsert   the last CheckStore.Upsert call: the check as passed,    *)
(*                the check as the call left it, whether it failed         *)
(***************************************************************************)
VARIABLES activities, newComments, blocks, pc,
          commentCreated, fetching, calls, server, clock, merged,
          pending, timeoutId, views,
          checks, checkSeq, lastUpsert

vars == <<activities, newComments, blocks, pc,
          commentCreated, fetching, calls, server, clock, merged,
          pending, timeoutId, views,
          checks, checkSeq, lastUpsert>>

\* the status check store
store == <<checks, checkSeq, lastUpsert>>

\* the highlight effect and the rendered system boxes
effects == <<pending, timeoutId, views>>

\* what a single run of the assembler never touches
component == <<commentCreated, fetching, calls, server, clock, merged, effects,
               store>>

Undefined == {}
Data(list) == {list}

(***************************************************************************)
(* Helpers on sequences.                                                   *)
(***************************************************************************)
Front(s) == SubSeq(s, 1, Len(s) - 1)

RECURSIVE Flatten(_)
Flatten(ss) == IF ss = <<>> THEN <<>> ELSE Head(ss) \o Flatten(Tail(ss))

Range(s) == {s[i] : i \in 1..Len(s)}

(***************************************************************************)
(* activityToCommentItem (components/DiffViewer/DiffViewerUtils).          *)
(***************************************************************************)
activityToCommentItem(activity) ==
    [author |-> activity.author, created |-> activity.created,
     updated |-> activity.edited, content |-> activity.text,
     payload |-> activity]

MapItems(s) == [i \in 1..Len(s) |-> activityToCommentItem(s[i])]

(***************************************************************************)
(* lodash orderBy(list, 'edited', 'desc'): a stable sort, largest first.   *)
(***************************************************************************)
RECURSIVE orderBy_asc(_)
orderBy_asc(s) ==
    IF s = <<>> THEN <<>>
    ELSE LET rest == orderBy_asc(Front(s))
             x == s[Len(s)]
             k == Cardinality({i \in 1..Len(rest) : rest[i].edited <= x.edited})
         IN SubSeq(rest, 1, k) \o <<x>> \o SubSeq(rest, k + 1, Len(rest))

RECURSIVE orderBy(_)
orderBy(s) ==
    IF s = <<>> THEN <<>>
    ELSE LET rest == orderBy(Front(s))
             x == s[Len(s)]
             k == Cardinality({i \in 1..Len(rest) : rest[i].edited >= x.edited})
         IN SubSeq(rest, 1, k) \o <<x>> \o SubSeq(rest, k + 1, Len(rest))

(***************************************************************************)
(* isSystemComment                                                         *)
(***************************************************************************)
isSystemComment(commentItems) == commentItems[1].payload.kind = KindSystem


(***************************************************************************)
(* activityBlocks (the useMemo of Conversation).                           *)
(***************************************************************************)
\* activities?.filter(...) || []  : an undefined list yields no record
fetchedList(acts) == IF acts = Undefined THEN <<>> ELSE CHOOSE l \in acts : TRUE

isRoot(activity) == activity.parent_id = NoParent

\* if (newComments.length) blocks.push(orderBy(newComments, ...).map(...))
draftBlocks_onePerDraft(drafts) ==
    [i \in 1..Len(drafts) |-> MapItems(<<orderBy(drafts)[i]>>)]

draftBlocks(drafts) ==
    IF Len(drafts) > 0 THEN <<MapItems(orderBy(drafts))>> ELSE <<>>

\* orderBy(activities?.filter(activity => !activity.parent_id) || [], ...)
parentActivities_unfiltered(acts) == orderBy(fetchedList(acts))

parentActivities_unsorted(acts) == SelectSeq(fetchedList(acts), isRoot)

parentActivities(acts) == orderBy(SelectSeq(fetchedList(acts), isRoot))

\* the root followed by the records whose parent_id is its id, in fetch order
childActivities_any(acts, parent) ==
    SelectSeq(fetchedList(acts), LAMBDA a : a.parent_id # NoParent)

childActivities_sorted(acts, parent) ==
    orderBy(SelectSeq(fetchedList(acts), LAMBDA a : a.parent_id = parent.id))

childActivities(acts, parent) ==
    SelectSeq(fetchedList(acts), LAMBDA a : a.parent_id = parent.id)

threadBlocks(acts) ==
    LET roots == parentActivities(acts)
    IN [i \in 1..Len(roots) |->
            MapItems(<<roots[i]>> \o childActivities(acts, roots[i]))]

\* blocks.filter(isSystemComment && payload.type === TITLE_CHANGE), kept as
\* the positions of those arrays in `blocks` (includes() compares references)
isTitleChange(block) ==
    isSystemComment(block) /\ block[1].payload.type = TITLE_CHANGE

titleChangeItems_reversed(bs) ==
    LET RECURSIVE Pick(_)
        Pick(i) == IF i < 1 THEN <<>>
                   ELSE (IF isTitleChange(bs[i]) THEN <<i>> ELSE <<>>) \o Pick(i - 1)
    IN Pick(Len(bs))

titleChangeItems(bs) ==
    LET RECURSIVE Pick(_)
        Pick(i) == IF i > Len(bs) THEN <<>>
                   ELSE (IF isTitleChange(bs[i]) THEN <<i>> ELSE <<>>) \o Pick(i + 1)
    IN Pick(1)

\* titleChangeItems[0].push(...value) for index > 0, shift(), then the filter
coalesce_keepAbsorbed(bs) ==
    LET tc == titleChangeItems(bs)
    IN IF tc = <<>> THEN bs
       ELSE [i \in 1..Len(bs) |->
               IF i = tc[1]
               THEN Flatten([k \in 1..Len(tc) |-> bs[tc[k]]])
               ELSE bs[i]]

\* variants of the grouping: absorbed blocks emptied in place instead of
\* removed, and absorbed blocks removed without their elements being pushed
coalesce_emptied(bs) ==
    LET tc == titleChangeItems(bs)
    IN [i \in 1..Len(bs) |->
            IF i \in {tc[k] : k \in 2..Len(tc)} THEN <<>>
            ELSE IF tc # <<>> /\ i = tc[1]
                 THEN Flatten([k \in 1..Len(tc) |-> bs[tc[k]]])
                 ELSE bs[i]]

coalesce_dropped(bs) ==
    LET tc == titleChangeItems(bs)
        absorbed == {tc[k] : k \in 2..Len(tc)}
        RECURSIVE Keep(_)
        Keep(i) == IF i > Len(bs) THEN <<>>
                   ELSE (IF i \in absorbed THEN <<>> ELSE <<bs[i]>>) \o Keep(i + 1)
    IN Keep(1)

coalesce(bs) ==
    LET tc == titleChangeItems(bs)
        absorbed == {tc[k] : k \in 2..Len(tc)}
        grown == [i \in 1..Len(bs) |->
                    IF tc # <<>> /\ i = tc[1]
                    THEN Flatten([k \in 1..Len(tc) |-> bs[tc[k]]])
                    ELSE bs[i]]
        RECURSIVE Keep(_)
        Keep(i) == IF i > Len(bs) THEN <<>>
                   ELSE (IF i \in absorbed THEN <<>> ELSE <<grown[i]>>) \o Keep(i + 1)
    IN Keep(1)

activityBlocks(acts, drafts) == coalesce(draftBlocks(drafts) \o threadBlocks(acts))

(***************************************************************************)
(* A single run of the assembler on enumerated inputs.                     *)
(* Fetched records carry ids 1..n in delivery order (ids are only compared *)
(* for equality); a reply may name any id, also one not in the list.       *)
(* System records are roots.  Drafts are top-level user comments the       *)
(* backend has numbered after the fetched ones.                            *)
(***************************************************************************)
ParentIds == 0..(MaxFetched + 1)

FetchedRecord(id) ==
    {Activity(id, p, KindComment, TypeComment, e, "c") :
        p \in ParentIds, e \in Timestamps}
    \cup {Activity(id, NoParent, KindSystem, t, e, "") :
        t \in {TITLE_CHANGE, MERGE}, e \in Timestamps}

\* the list whose i-th record is the i-th chosen record, numbered i
FetchedListOf(chosen) ==
    [i \in DOMAIN chosen |-> [chosen[i] EXCEPT !.id = i]]

DraftRecord(k) ==
    {Activity(MaxFetched + k, NoParent, KindComment, TypeComment, e, "c") :
        e \in Timestamps}

DraftLists ==
    UNION {{l \in [1..n -> UNION {DraftRecord(k) : k \in 1..n}] :
                \A k \in 1..n : l[k].id = MaxFetched + k} : n \in 0..MaxDrafts}

InitAsm ==
    /\ newComments \in DraftLists
    /\ \/ activities = Undefined
       \/ \E n \in 0..MaxFetched : \E chosen \in [1..n -> FetchedRecord(0)] :
             activities = Data(FetchedListOf(chosen))
    /\ blocks = <<>>
    /\ pc = "input"
    /\ commentCreated = FALSE
    /\ fetching = FALSE
    /\ calls = <<>>
    /\ server = <<>>
    /\ clock = 1
    /\ merged = FALSE
    /\ pending = 0
    /\ timeoutId = 0
    /\ views = <<>>
    /\ checks = {}
    /\ checkSeq = 1
    /\ lastUpsert = Undefined

\* What a run does to its two input arrays.  lodash orderBy and filter
\* return new arrays (an in-place sort would reorder newComments); push
\* (lines 79, 95) and shift (line 98) act on arrays made by the maps of
\* lines 66, 71 and 84 and by the filter of line 89.
newCommentsAfterRun_sortedInPlace(drafts) == orderBy(drafts)

newCommentsAfterRun(drafts) == drafts

activitiesAfterRun(acts) == acts

Assemble ==
    /\ pc = "input"
    /\ blocks' = activityBlocks(activities, newComments)
    /\ newComments' = newCommentsAfterRun(newComments)
    /\ activities' = activitiesAfterRun(activities)
    /\ pc' = "rendered"
    /\ UNCHANGED component

NextAsm == Assemble

SpecAsm == InitAsm /\ [][NextAsm]_vars

(***************************************************************************)
(* The running component.                                                  *)
(*                                                                         *)
(* A handleAction invocation is an async function: it runs to its first    *)
(* await, the request is answered by the backend, and the .then or .catch  *)
(* callback runs when the response is delivered.  Each invocation keeps    *)
(* its own locals (result, updatedItem) and what its closure captured:     *)
(*   at        "confirm" (dialog open), "sent" (request in flight),        *)
(*             "responded" (response in flight), "done" (returned)         *)
(*   answer    what the user answered to the confirmation dialog           *)
(*   status    "ok" or "err": how the backend answered, response its body  *)
(*   requests  requests issued, errors  showError calls made               *)
(*   highlighted  commentCreated as the .then of a creation found it       *)
(***************************************************************************)
REPLY == "reply"
UPDATE == "update"
DELETE == "delete"

Texts == {"lgtm"}

\* the pull request's activities when the page is opened
InitialServer == <<Activity(1, NoParent, KindComment, TypeComment, 1, "first")>>

Call(box, action, threadId, id, value, captured, at, result, requests) ==
    [box |-> box, action |-> action, threadId |-> threadId, id |-> id,
     value |-> value, captured |-> captured, at |-> at, result |-> result,
     updatedItem |-> Undefined, answer |-> "", status |-> "",
     response |-> Undefined, errors |-> 0, requests |-> requests,
     highlighted |-> FALSE]

\* let result = true (lines 153 and 217); case DELETE: result = false (line 159)
resultAtStart_deleteKeepsTrue(action) == TRUE

resultAtStart(action) == action # DELETE

Init ==
    /\ activities = Undefined
    /\ newComments = <<>>
    /\ blocks = <<>>
    /\ pc = "mounted"
    /\ commentCreated = FALSE
    /\ fetching = TRUE
    /\ calls = <<>>
    /\ server = InitialServer
    /\ clock = Len(InitialServer) + 1
    /\ merged = FALSE
    /\ pending = 0
    /\ timeoutId = 0
    /\ views = <<>>
    /\ checks = {}
    /\ checkSeq = 1
    /\ lastUpsert = Undefined

Mounted == pc = "mounted"

\* what a re-render shows after the state has changed
Rerender == blocks' = activityBlocks(activities', newComments')

(***************************************************************************)
(* useGet: the response to the GET in flight replaces the fetched list.    *)
(***************************************************************************)
FetchResolve ==
    /\ Mounted /\ fetching
    /\ activities' = Data(server)
    /\ fetching' = FALSE
    /\ UNCHANGED <<effects, store>>
    /\ UNCHANGED <<newComments, pc, commentCreated, calls, server, clock, merged>>
    /\ Rerender

(***************************************************************************)
(* onMerge of PullRequestStatusInfo: the pull request has been merged (the *)
(* backend records a merge activity); refreshPullRequestMetadata() and     *)
(* refetchActivities().                                                    *)
(***************************************************************************)
onMerge ==
    /\ Mounted /\ ~ merged
    /\ merged' = TRUE
    /\ server' = Append(server, [Activity(clock, NoParent, KindSystem, MERGE, clock, "")
                                    EXCEPT !.created = clock])
    /\ clock' = clock + 1
    /\ fetching' = TRUE
    /\ UNCHANGED <<effects, store>>
    /\ UNCHANGED <<activities, newComments, blocks, pc, commentCreated, calls>>

(***************************************************************************)
(* The top-level CommentBox: handleAction up to `await saveComment(...)`.  *)
(* The closure holds the newComments of the render that created it.        *)
(***************************************************************************)
SubmitComment(value) ==
    /\ Mounted /\ Len(calls) < MaxCalls
    /\ calls' = Append(calls, Call("top", REPLY, NoParent, NoParent, value,
                                   newComments, "sent", resultAtStart(REPLY), 1))
    /\ UNCHANGED <<effects, store>>
    /\ UNCHANGED <<activities, newComments, blocks, pc, commentCreated,
                   fetching, server, clock, merged>>

(***************************************************************************)
(* The CommentBox of a displayed thread: handleAction up to its first      *)
(* await.  threadId is the id of the block's first element, id the id of   *)
(* the comment item acted on.                                              *)
(***************************************************************************)
ThreadAction(action, b, j, value) ==
    /\ Mounted /\ Len(calls) < MaxCalls
    /\ b \in 1..Len(blocks) /\ j \in 1..Len(blocks[b])
    /\ ~ isSystemComment(blocks[b])
    /\ action = REPLY => j = 1
    /\ action = DELETE => value = ""
    /\ action # DELETE => value \in Texts
    /\ calls' = Append(calls,
            Call("thread", action, blocks[b][1].payload.id, blocks[b][j].payload.id,
                 value, <<>>,
                 IF action = DELETE THEN "confirm" ELSE "sent",
                 resultAtStart(action),
                 IF action = DELETE THEN 0 ELSE 1))
    /\ UNCHANGED <<effects, store>>
    /\ UNCHANGED <<activities, newComments, blocks, pc, commentCreated,
                   fetching, server, clock, merged>>

(***************************************************************************)
(* confirmAct (hooks/useConfirmAction): the dialog runs `action` only when *)
(* the user confirms, and resolves either way.                             *)
(***************************************************************************)
ConfirmDelete(c) ==
    /\ Mounted /\ c \in 1..Len(calls) /\ calls[c].at = "confirm"
    /\ calls' = [calls EXCEPT ![c].at = "sent", ![c].answer = "confirmed",
                              ![c].requests = @ + 1]
    /\ UNCHANGED <<effects, store>>
    /\ UNCHANGED <<activities, newComments, blocks, pc, commentCreated,
                   fetching, server, clock, merged>>

DeclineDelete(c) ==
    /\ Mounted /\ c \in 1..Len(calls) /\ calls[c].at = "confirm"
    /\ calls' = [calls EXCEPT ![c].at = "done", ![c].answer = "declined"]
    /\ UNCHANGED <<effects, store>>
    /\ UNCHANGED <<activities, newComments, blocks, pc, commentCreated,
                   fetching, server, clock, merged>>

(***************************************************************************)
(* The backend (POST, PATCH, DELETE of .../comments).                      *)
(***************************************************************************)
Position(list, id) == {i \in 1..Len(list) : list[i].id = id}

Without(list, i) == SubSeq(list, 1, i - 1) \o SubSeq(list, i + 1, Len(list))

BackendAccept(c) ==
    /\ c \in 1..Len(calls) /\ calls[c].at = "sent"
    /\ LET call == calls[c]
           created == [Activity(clock, call.threadId, KindComment, TypeComment,
                                clock, call.value) EXCEPT !.created = clock]
       IN CASE call.action = REPLY ->
                 /\ server' = Append(server, created)
                 /\ calls' = [calls EXCEPT ![c].at = "responded", ![c].status = "ok",
                                              ![c].response = {created}]
            [] call.action = UPDATE ->
                 \E i \in Position(server, call.id) :
                    LET edited == [server[i] EXCEPT !.text = call.value, !.edited = clock]
                    IN /\ server' = [server EXCEPT ![i] = edited]
                       /\ calls' = [calls EXCEPT ![c].at = "responded",
                                                    ![c].status = "ok",
                                                    ![c].response = {edited}]
            [] call.action = DELETE ->
                 \E i \in Position(server, call.id) :
                    /\ server' = Without(server, i)
                    /\ calls' = [calls EXCEPT ![c].at = "responded", ![c].status = "ok"]
    /\ clock' = clock + 1
    /\ UNCHANGED <<effects, store>>
    /\ UNCHANGED <<activities, newComments, blocks, pc, commentCreated, fetching, merged>>

BackendReject(c) ==
    /\ c \in 1..Len(calls) /\ calls[c].at = "sent"
    /\ calls' = [calls EXCEPT ![c].at = "responded", ![c].status = "err"]
    /\ UNCHANGED <<effects, store>>
    /\ UNCHANGED <<activities, newComments, blocks, pc, commentCreated,
                   fetching, server, clock, merged>>

(***************************************************************************)
(* useAnimateNewCommentBox.  The effect runs after a render in which       *)
(* commentCreated has changed: its cleanup clears the timer timeoutId      *)
(* names, and with commentCreated true it schedules the first of three     *)
(* chained timers, each callback scheduling the next and storing its id    *)
(* in timeoutId.  A timer is named by its delay in milliseconds.           *)
(***************************************************************************)
ScrollDelay == 300
ClearDelay == 5000
ResetDelay == 2000

\* timeoutId = window.setTimeout(...) (lines 472, 477, 479)
assignedTimeoutId_outerOnly(delay) == ScrollDelay

assignedTimeoutId(delay) == delay

\* clearTimeout(timeoutId): the scheduled timer is cancelled when it is the
\* one timeoutId names
clearTimeout(scheduled, id) == IF scheduled = id THEN 0 ELSE scheduled

\* setCommentCreated(false) of the last timer
flagAfterChain_kept(flag) == flag

flagAfterChain(flag) == FALSE

\* after 300 ms: box?.scrollIntoView(...), then the 5000 ms timer
ScrollTimer ==
    /\ pending = ScrollDelay
    /\ pending' = ClearDelay
    /\ timeoutId' = assignedTimeoutId(ClearDelay)
    /\ UNCHANGED <<activities, newComments, blocks, pc, commentCreated,
                   fetching, calls, server, clock, merged, views, store>>

\* after 5000 ms: box?.classList.add(css.clear), then the 2000 ms timer
ClearTimer ==
    /\ pending = ClearDelay
    /\ pending' = ResetDelay
    /\ timeoutId' = assignedTimeoutId(ResetDelay)
    /\ UNCHANGED <<activities, newComments, blocks, pc, commentCreated,
                   fetching, calls, server, clock, merged, views, store>>

\* after 2000 ms: setCommentCreated(false); the re-render runs the cleanup
\* (the timer has fired) and the effect anew, with timeoutId = 0
ResetTimer ==
    /\ pending = ResetDelay
    /\ pending' = 0
    /\ IF Mounted
       THEN /\ commentCreated' = flagAfterChain(commentCreated)
            /\ timeoutId' = 0
       ELSE UNCHANGED <<commentCreated, timeoutId>>
    /\ UNCHANGED <<activities, newComments, blocks, pc,
                   fetching, calls, server, clock, merged, views, store>>

\* the component is removed: the effect's cleanup runs; requests in flight
\* are left alone
Unmount ==
    /\ Mounted
    /\ pc' = "unmounted"
    /\ pending' = clearTimeout(pending, timeoutId)
    /\ UNCHANGED <<activities, newComments, blocks, commentCreated, fetching,
                   calls, server, clock, merged, timeoutId, views, store>>

(***************************************************************************)
(* The .then callbacks, and the return of [result, updatedItem].           *)
(***************************************************************************)
\* setNewComments([...newComments, newComment]) of the top-level box
appendDraft(call, newComment) == Append(call.captured, newComment)

\* .then(() => { result = true }) of deleteComment
resultAfterDelete_unset(call) == call.result

resultAfterDelete(call) == TRUE

\* updatedItem = activityToCommentItem(newComment)
updatedItemOf_dropped(newComment) == Undefined

updatedItemOf(newComment) == {activityToCommentItem(newComment)}

Resolved(c) ==
    /\ c \in 1..Len(calls) /\ calls[c].at = "responded" /\ calls[c].status = "ok"
    /\ UNCHANGED <<activities, pc, fetching, server, clock, merged, views, store>>
    /\ LET call == calls[c]
       IN IF call.action = DELETE
          THEN /\ calls' = [calls EXCEPT ![c].at = "done",
                                         ![c].result = resultAfterDelete(call)]
               /\ UNCHANGED <<newComments, commentCreated, blocks, pending, timeoutId>>
          ELSE LET newComment == CHOOSE r \in call.response : TRUE
               IN /\ calls' = [calls EXCEPT ![c].at = "done",
                                            ![c].updatedItem = updatedItemOf(newComment),
                                            ![c].highlighted =
                                                call.box = "top" /\ commentCreated]
                  /\ IF call.box = "top" /\ Mounted
                     THEN /\ newComments' = appendDraft(call, newComment)
                          /\ commentCreated' = TRUE
                          /\ IF commentCreated
                             THEN UNCHANGED <<pending, timeoutId>>
                             ELSE /\ pending' = ScrollDelay
                                  /\ timeoutId' = assignedTimeoutId(ScrollDelay)
                     ELSE UNCHANGED <<newComments, commentCreated, pending, timeoutId>>
                  /\ Rerender

(***************************************************************************)
(* The .catch callbacks: result = false and showError(...).                *)
(***************************************************************************)
\* showError(getErrorMessage(exception), 0, ...) in each .catch
errorsAfterCatch_silent(call) == call.errors

errorsAfterCatch(call) == call.errors + 1

\* result = false in a .catch: `result` is a local of the invocation
resultsAfterCatch_shared(cs, c) ==
    [d \in 1..Len(cs) |->
        IF d = c \/ cs[d].at # "done" THEN [cs[d] EXCEPT !.result = FALSE] ELSE cs[d]]

resultsAfterCatch(cs, c) == [cs EXCEPT ![c].result = FALSE]

Rejected(c) ==
    /\ c \in 1..Len(calls) /\ calls[c].at = "responded" /\ calls[c].status = "err"
    /\ calls' = [resultsAfterCatch(calls, c) EXCEPT
                    ![c].at = "done", ![c].errors = errorsAfterCatch(calls[c])]
    /\ UNCHANGED <<effects, store>>
    /\ UNCHANGED <<activities, newComments, blocks, pc, commentCreated,
                   fetching, server, clock, merged>>

Next ==
    \/ FetchResolve
    \/ onMerge
    \/ \E value \in Texts : SubmitComment(value)
    \/ \E action \in {REPLY, UPDATE, DELETE}, value \in Texts \cup {""} :
          \E b \in 1..Len(blocks) : \E j \in 1..Len(blocks[b]) :
             ThreadAction(action, b, j, value)
    \/ \E c \in 1..MaxCalls : ConfirmDelete(c)
    \/ \E c \in 1..MaxCalls : DeclineDelete(c)
    \/ \E c \in 1..MaxCalls : BackendAccept(c)
    \/ \E c \in 1..MaxCalls : BackendReject(c)
    \/ \E c \in 1..MaxCalls : Resolved(c)
    \/ \E c \in 1..MaxCalls : Rejected(c)
    \/ ScrollTimer
    \/ ClearTimer
    \/ ResetTimer
    \/ Unmount

Spec == Init /\ [][Next]_vars

\* a scheduled browser timer fires once its delay has elapsed
SpecLive ==
    /\ Spec
    /\ WF_vars(ScrollTimer)
    /\ WF_vars(ClearTimer)
    /\ WF_vars(ResetTimer)

(***************************************************************************)
(* SystemBox and the render loop that dispatches to it.                    *)
(* A view records which presentation was returned, the type text shown by  *)
(* the generic one, the rows of the title-change table and the number of   *)
(* console.warn calls made.                                                *)
(***************************************************************************)
OtherType == "other"
NoType == ""

View(view, shown, rows, warnings) ==
    [view |-> view, shown |-> shown, rows |-> rows, warnings |-> warnings]

\* console.warn('Unable to render system type activity', commentItems)
warningsOfDefault_silent(type) == 0

warningsOfDefault(type) == 1

SystemBox(commentItems) ==
    LET type == commentItems[1].payload.type
    IN CASE type = MERGE -> View("merge", "", 0, 0)
         [] type = TITLE_CHANGE ->
                View("title-change", "", Len(commentItems) - 1, 0)
         [] OTHER -> View("generic", type, 0, warningsOfDefault(type))

\* activityBlocks?.map((blocks, index) => ...): a SystemBox for a system
\* block, a CommentBox for any other
renderBlock(commentItems) ==
    IF isSystemComment(commentItems)
    THEN SystemBox(commentItems)
    ELSE View("comment-box", "", 0, 0)

(***************************************************************************)
(* The render loop on enumerated blocks: system blocks of every type,      *)
(* among them one the switch does not name and one without a type, and     *)
(* user threads, each with or without a second element.                    *)
(***************************************************************************)
SystemTypes == {MERGE, TITLE_CHANGE, TypeCodeComment, OtherType, NoType}

BlockChoices ==
    {[kind |-> KindSystem, type |-> t, edited |-> e, tail |-> tl] :
        t \in SystemTypes, e \in Timestamps, tl \in {"none", "reply", "title-change"}}
    \cup {[kind |-> KindComment, type |-> TypeComment, edited |-> e, tail |-> tl] :
        e \in Timestamps, tl \in {"none", "reply", "title-change"}}

\* the i-th block: its first element numbered i, its second MaxBoxes + i
BlockOf(i, choice) ==
    LET head == Activity(i, NoParent, choice.kind, choice.type, choice.edited,
                         IF choice.kind = KindSystem THEN "" ELSE "c")
        tail == CASE choice.tail = "none" -> <<>>
                  [] choice.tail = "reply" ->
                        <<Activity(MaxBoxes + i, i, KindComment, TypeComment, 1, "c")>>
                  [] choice.tail = "title-change" ->
                        <<Activity(MaxBoxes + i, NoParent, KindSystem, TITLE_CHANGE, 1, "")>>
    IN MapItems(<<head>> \o tail)

InitBox ==
    /\ \E n \in 1..MaxBoxes : \E chosen \in [1..n -> BlockChoices] :
          blocks = [i \in 1..n |-> BlockOf(i, chosen[i])]
    /\ activities = Undefined
    /\ newComments = <<>>
    /\ pc = "assembled"
    /\ commentCreated = FALSE
    /\ fetching = FALSE
    /\ calls = <<>>
    /\ server = <<>>
    /\ clock = 1
    /\ merged = FALSE
    /\ pending = 0
    /\ timeoutId = 0
    /\ views = <<>>
    /\ checks = {}
    /\ checkSeq = 1
    /\ lastUpsert = Undefined

RenderBlocks ==
    /\ pc = "assembled"
    /\ views' = [i \in 1..Len(blocks) |-> renderBlock(blocks[i])]
    /\ pc' = "displayed"
    /\ UNCHANGED <<activities, newComments, blocks, commentCreated, fetching,
                   calls, server, clock, merged, pending, timeoutId, store>>

NextBox == RenderBlocks

SpecBox == InitBox /\ [][NextBox]_vars

(***************************************************************************)
(* CheckStore (package database): the checks table and Upsert.             *)
(* A types.Check carries its payload as a struct (Version, Kind, Data);    *)
(* mapInternalCheck flattens it into the columns of a row.                 *)
(***************************************************************************)
RepoIDs == {1, 2}
CommitSHAs == {"c1", "c2"}
UIDs == {"build", "lint"}
Principals == {1, 2}

\* the keys reported on: one key and the three that differ from it in
\* exactly one column
NaturalKeys ==
    {k \in RepoIDs \X CommitSHAs \X UIDs :
        Cardinality({i \in 1..3 : k[i] # <<1, "c1", "build">>[i]}) <= 1}

\* what a reporter sends about a check
Reports ==
    {[Status |-> "pending", Summary |-> "queued", Link |-> "l1", Metadata |-> "m1",
      Payload |-> [Version |-> "v1", Kind |-> "", Data |-> "d1"]],
     [Status |-> "success", Summary |-> "passed", Link |-> "l2", Metadata |-> "m2",
      Payload |-> [Version |-> "v2", Kind |-> "markdown", Data |-> "d2"]]}

\* the types.Check a caller passes: not yet stored (ID 0), created now
TypesCheck(by, at, repo, sha, uid, report) ==
    [ID |-> 0, CreatedBy |-> by, Created |-> at, Updated |-> at,
     RepoID |-> repo, CommitSHA |-> sha, UID |-> uid,
     Status |-> report.Status, Summary |-> report.Summary, Link |-> report.Link,
     Payload |-> report.Payload, Metadata |-> report.Metadata]

mapInternalCheck(c) ==
    [ID |-> c.ID, CreatedBy |-> c.CreatedBy, Created |-> c.Created,
     Updated |-> c.Updated, RepoID |-> c.RepoID, CommitSHA |-> c.CommitSHA,
     UID |-> c.UID, Status |-> c.Status, Summary |-> c.Summary, Link |-> c.Link,
     Payload |-> c.Payload.Data, Metadata |-> c.Metadata,
     PayloadKind |-> c.Payload.Kind, PayloadVersion |-> c.Payload.Version]

\* ON CONFLICT (check_repo_id, check_commit_sha, check_uid)
conflictTarget_withoutUID(row) == <<row.RepoID, row.CommitSHA>>

conflictTarget(row) == <<row.RepoID, row.CommitSHA, row.UID>>

\* INSERT INTO checks (...) VALUES (...): check_id is not among the columns,
\* the table generates it
insertedRow(m, id) == [m EXCEPT !.ID = id]

\* DO UPDATE SET check_updated = :check_updated, ...
updatedRow(row, m) ==
    [row EXCEPT !.Updated = m.Updated, !.Status = m.Status,
                !.Summary = m.Summary, !.Link = m.Link,
                !.Payload = m.Payload, !.Metadata = m.Metadata,
                !.PayloadKind = m.PayloadKind,
                !.PayloadVersion = m.PayloadVersion]

\* RETURNING check_id, check_created_by, check_created, scanned into the
\* caller's check
scanned(c, row) ==
    [c EXCEPT !.ID = row.ID, !.CreatedBy = row.CreatedBy, !.Created = row.Created]

UpsertCall(arg, check, failed) == {[arg |-> arg, check |-> check, err |-> failed]}

InitStore ==
    /\ activities = Undefined
    /\ newComments = <<>>
    /\ blocks = <<>>
    /\ pc = "store"
    /\ commentCreated = FALSE
    /\ fetching = FALSE
    /\ calls = <<>>
    /\ server = <<>>
    /\ clock = 1
    /\ merged = FALSE
    /\ pending = 0
    /\ timeoutId = 0
    /\ views = <<>>
    /\ checks = {}
    /\ checkSeq = 1
    /\ lastUpsert = Undefined

\* One statement, executed atomically by the database.  A conflicting
\* insert may or may not consume a generated id, depending on the database.
Upsert(c) ==
    /\ pc = "store" /\ clock <= MaxUpserts
    /\ LET m == mapInternalCheck(c)
           hit == {r \in checks : conflictTarget(r) = conflictTarget(m)}
       IN IF hit = {}
          THEN /\ checks' = checks \cup {insertedRow(m, checkSeq)}
               /\ checkSeq' = checkSeq + 1
               /\ lastUpsert' = UpsertCall(c, scanned(c, insertedRow(m, checkSeq)), FALSE)
          ELSE \E r \in hit :
               /\ checks' = (checks \ {r}) \cup {updatedRow(r, m)}
               /\ checkSeq' \in {checkSeq, checkSeq + 1}
               /\ lastUpsert' = UpsertCall(c, scanned(c, updatedRow(r, m)), FALSE)
    /\ clock' = clock + 1
    /\ UNCHANGED <<activities, newComments, blocks, pc, commentCreated, fetching,
                   calls, server, merged, effects>>

\* BindNamed or the query fails: the error is returned, nothing is scanned
UpsertFails(c) ==
    /\ pc = "store" /\ clock <= MaxUpserts
    /\ lastUpsert' = UpsertCall(c, c, TRUE)
    /\ clock' = clock + 1
    /\ UNCHANGED <<activities, newComments, blocks, pc, commentCreated, fetching,
                   calls, server, merged, effects, checks, checkSeq>>

NextStore ==
    \/ \E by \in Principals, k \in NaturalKeys, report \in Reports :
            Upsert(TypesCheck(by, clock, k[1], k[2], k[3], report))
    \/ \E by \in Principals, k \in NaturalKeys, report \in Reports :
            UpsertFails(TypesCheck(by, clock, k[1], k[2], k[3], report))

SpecStore == InitStore /\ [][NextStore]_vars

(***************************************************************************)
(* Vocabulary of the properties.                                           *)
(***************************************************************************)
Rendered == pc # "input"

Fetched == fetchedList(activities)

\* the activity records shown, block after block
Shown == [i \in 1..Len(Flatten(blocks)) |-> Flatten(blocks)[i].payload]

Occurrences(s, x) == Cardinality({i \in 1..Len(s) : s[i] = x})

isTitleChangeRecord(a) == a.kind = KindSystem /\ a.type = TITLE_CHANGE

TitleChangeRecords == {a \in Range(Fetched) : isTitleChangeRecord(a)}

\* a fetched record whose parent_id is set and is the id of no fetched root
isOrphan(a) ==
    /\ a.parent_id # NoParent
    /\ ~ \E r \in Range(Fetched) : isRoot(r) /\ r.id = a.parent_id

(***************************************************************************)
(* C1 (as stated): in every block each element after the first has         *)
(* parent_id equal to the id of the block's first element.                 *)
(***************************************************************************)
ThreadIntegrityEveryBlock ==
    Rendered =>
        \A i \in 1..Len(blocks) : \A j \in 2..Len(blocks[i]) :
            blocks[i][j].payload.parent_id = blocks[i][1].payload.id

(***************************************************************************)
(* C1 (amended): in every block headed by a fetched root that is not a     *)
(* title_change system record, each element after the first has parent_id  *)
(* equal to the id of the block's first element.                           *)
(***************************************************************************)
ThreadIntegrityFetchedThreads ==
    Rendered =>
        \A i \in 1..Len(blocks) :
            (/\ blocks[i][1].payload \in Range(Fetched)
             /\ ~ isTitleChange(blocks[i]))
            => \A j \in 2..Len(blocks[i]) :
                    blocks[i][j].payload.parent_id = blocks[i][1].payload.id

\* a fetched thread with a reply is shown while another fetched reply
\* belongs to a different parent
ThreadWithReplyShown ==
    /\ pc = "rendered"
    /\ \E i \in 1..Len(blocks) :
            /\ blocks[i][1].payload \in Range(Fetched)
            /\ ~ isTitleChange(blocks[i])
            /\ Len(blocks[i]) >= 2
            /\ \E a \in Range(Fetched) :
                    /\ a.parent_id # NoParent
                    /\ a.parent_id # blocks[i][1].payload.id

(***************************************************************************)
(* C2: with two or more title_change system records fetched, exactly one   *)
(* block is headed by a title_change record, it holds every title_change   *)
(* record of the input, and none of them is shown in another block.        *)
(***************************************************************************)
TitleChangesCoalesced ==
    (Rendered /\ Cardinality(TitleChangeRecords) >= 2) =>
        /\ Cardinality({i \in 1..Len(blocks) : isTitleChange(blocks[i])}) = 1
        /\ \A i \in 1..Len(blocks) :
              IF isTitleChange(blocks[i])
              THEN \A a \in TitleChangeRecords :
                      \E j \in 1..Len(blocks[i]) : blocks[i][j].payload = a
              ELSE \A j \in 1..Len(blocks[i]) :
                      blocks[i][j].payload \notin TitleChangeRecords

\* three fetched title changes have been assembled into one block
ThreeTitleChangesAssembled ==
    /\ pc = "rendered"
    /\ Cardinality(TitleChangeRecords) = 3
    /\ Len(blocks) = 1
    /\ Len(blocks[1]) = 3

(***************************************************************************)
(* C3 (as stated): with n drafts in the buffer the output starts with n    *)
(* blocks of length 1, one per draft.                                      *)
(***************************************************************************)
EachDraftOwnBlock ==
    Rendered =>
        /\ Len(blocks) >= Len(newComments)
        /\ \A i \in 1..Len(newComments) :
              /\ Len(blocks[i]) = 1
              /\ blocks[i][1].payload = orderBy(newComments)[i]

(***************************************************************************)
(* C4: every draft is shown before every fetched record, and of two        *)
(* drafts the one with the larger edited timestamp is shown first.         *)
(***************************************************************************)
DraftsFirstNewestFirst ==
    Rendered =>
        LET n == Len(newComments)
        IN /\ Len(Shown) >= n
           /\ \A d \in Range(newComments) : \E i \in 1..n : Shown[i] = d
           /\ \A i \in (n + 1)..Len(Shown) : Shown[i] \in Range(Fetched)
           /\ \A i, j \in 1..n :
                 Shown[i].edited > Shown[j].edited => i < j

\* an older and then a newer draft are in the buffer, with a fetched thread
NewerDraftAppendedLast ==
    /\ pc = "rendered"
    /\ Len(newComments) = 2
    /\ newComments[1].edited < newComments[2].edited
    /\ Len(Shown) > 2

(***************************************************************************)
(* C5: a fetched record whose parent_id is the id of no fetched root is    *)
(* shown in no block, and every fetched root is still shown.               *)
(***************************************************************************)
OrphansDropped ==
    Rendered =>
        /\ \A a \in Range(Fetched) : isOrphan(a) => Occurrences(Shown, a) = 0
        /\ \A r \in Range(Fetched) : isRoot(r) => Occurrences(Shown, r) >= 1

\* a root, a reply to it and a reply to that reply have been assembled
ReplyToReplyAssembled ==
    /\ pc = "rendered"
    /\ \E r, c, o \in Range(Fetched) :
            /\ isRoot(r) /\ c.parent_id = r.id /\ o.parent_id = c.id
            /\ c # r /\ o # c
    /\ Len(Shown) = 2

(***************************************************************************)
(* Vocabulary of the properties of the running component.                  *)
(***************************************************************************)
Ids(list) == {list[i].id : i \in 1..Len(list)}

Returned(c) == calls[c].at = "done"

isTopLevel(c) == calls[c].box = "top"

ResponseOf(c) == CHOOSE r \in calls[c].response : TRUE

\* the .catch callback of invocation c runs in this step
CatchRuns(c) ==
    /\ c \in 1..Len(calls)
    /\ calls[c].at = "responded" /\ calls[c].status = "err"
    /\ calls'[c].at = "done"

(***************************************************************************)
(* C6 (as stated): once a refetch has been answered, no draft that it      *)
(* returned is still in the draft buffer and no activity record is         *)
(* displayed more than once.                                               *)
(***************************************************************************)
RefetchAnswered == Mounted /\ activities # Undefined /\ fetching /\ ~ fetching'

DraftsLeaveBufferOnRefetch ==
    [][RefetchAnswered =>
        /\ Ids(newComments') \cap Ids(Fetched') = {}
        /\ \A i, j \in 1..Len(Shown') : Shown'[i].id = Shown'[j].id => i = j]_vars

(***************************************************************************)
(* C7 (as stated): once every invocation has returned, the draft buffer    *)
(* holds the record of every top-level submission the backend accepted.    *)
(***************************************************************************)
NoCreationLost ==
    (Mounted /\ \A c \in 1..Len(calls) : Returned(c)) =>
        \A c \in 1..Len(calls) :
            (isTopLevel(c) /\ calls[c].status = "ok")
            => ResponseOf(c).id \in Ids(newComments)

(***************************************************************************)
(* C8: a delete request is issued only by an invocation whose dialog was   *)
(* confirmed; a declined Delete has returned (false, absent), has issued   *)
(* no request and has shown no notification.                               *)
(***************************************************************************)
DeleteOnlyAfterConfirm ==
    Mounted =>
        \A c \in 1..Len(calls) :
            calls[c].action = DELETE =>
                /\ calls[c].requests > 0 => calls[c].answer = "confirmed"
                /\ calls[c].answer = "declined" =>
                      /\ Returned(c)
                      /\ calls[c].result = FALSE
                      /\ calls[c].updatedItem = Undefined
                      /\ calls[c].requests = 0
                      /\ calls[c].errors = 0
                      /\ calls[c].status = ""

\* a Delete was declined while another Delete was confirmed and sent
DeleteDeclined ==
    /\ Mounted
    /\ \E c, d \in 1..Len(calls) :
            /\ calls[c].action = DELETE /\ calls[c].answer = "declined"
            /\ calls[d].action = DELETE /\ calls[d].requests = 1

(***************************************************************************)
(* C9: a confirmed Delete returns (true, absent) when the backend accepted *)
(* it and (false, absent) when the backend failed, and the step in which   *)
(* the failure is handled leaves the fetched list, the draft buffer and    *)
(* the displayed blocks as they were.                                      *)
(***************************************************************************)
ConfirmedDeleteReturns ==
    Mounted =>
        \A c \in 1..Len(calls) :
            (calls[c].action = DELETE /\ calls[c].answer = "confirmed" /\ Returned(c))
            => /\ calls[c].result = (calls[c].status = "ok")
               /\ calls[c].updatedItem = Undefined

FailedDeleteChangesNothing ==
    \A c \in 1..MaxCalls :
        (CatchRuns(c) /\ calls[c].action = DELETE)
        => UNCHANGED <<activities, newComments, blocks>>

ConfirmedDeleteResult ==
    /\ [] ConfirmedDeleteReturns
    /\ [][FailedDeleteChangesNothing]_vars

\* one confirmed Delete has failed and then another one was accepted
DeleteAcceptedAndFailed ==
    /\ Mounted
    /\ \E c, d \in 1..Len(calls) :
            /\ calls[c].action = DELETE /\ Returned(c) /\ calls[c].status = "err"
            /\ calls[d].action = DELETE /\ Returned(d) /\ calls[d].status = "ok"

(***************************************************************************)
(* C10: a Reply or an Update (and a top-level submission) returns          *)
(* (true, item), item being the mapping of the record the backend          *)
(* returned, whose content is the submitted value, when the request        *)
(* succeeded, and (false, absent) when it failed; the step in which the    *)
(* failure is handled leaves the fetched list, the draft buffer and the    *)
(* displayed blocks as they were.                                          *)
(***************************************************************************)
SaveReturns ==
    Mounted =>
        \A c \in 1..Len(calls) :
            (calls[c].action \in {REPLY, UPDATE} /\ Returned(c)) =>
                IF calls[c].status = "ok"
                THEN /\ calls[c].result = TRUE
                     /\ \E item \in calls[c].updatedItem :
                           /\ calls[c].updatedItem = {item}
                           /\ item.payload = ResponseOf(c)
                           /\ item.content = calls[c].value
                           /\ item.updated = ResponseOf(c).edited
                ELSE /\ calls[c].result = FALSE
                     /\ calls[c].updatedItem = Undefined

FailedSaveChangesNothing ==
    \A c \in 1..MaxCalls :
        (CatchRuns(c) /\ calls[c].action \in {REPLY, UPDATE})
        => UNCHANGED <<activities, newComments, blocks>>

SaveResult ==
    /\ [] SaveReturns
    /\ [][FailedSaveChangesNothing]_vars

\* an in-thread Reply succeeded and a top-level submission failed
ReplySucceededSubmitFailed ==
    /\ Mounted
    /\ \E c, d \in 1..Len(calls) :
            /\ calls[c].box = "thread" /\ calls[c].action = REPLY
            /\ Returned(c) /\ calls[c].status = "ok"
            /\ calls[d].box = "top" /\ Returned(d) /\ calls[d].status = "err"

(***************************************************************************)
(* C11: on each of the four mutation paths (in-thread Reply, Update,       *)
(* confirmed Delete, top-level creation) an invocation has shown exactly   *)
(* one error notification once the failure of its request was handled,     *)
(* and none in every other case (request still in flight, succeeded, or    *)
(* Delete declined).                                                       *)
(***************************************************************************)
OneNotificationPerFailure ==
    \A c \in 1..Len(calls) :
        calls[c].errors =
            IF Returned(c) /\ calls[c].status = "err" THEN 1 ELSE 0

\* a confirmed Delete failed and was notified once, while a Reply succeeded
FailedDeleteNotified ==
    \E c, d \in 1..Len(calls) :
        /\ calls[c].action = DELETE /\ calls[c].answer = "confirmed"
        /\ Returned(c) /\ calls[c].status = "err" /\ calls[c].errors = 1
        /\ calls[d].action = REPLY /\ Returned(d) /\ calls[d].status = "ok"
        /\ calls[d].errors = 0

(***************************************************************************)
(* C12: a run of the assembler leaves the fetched list and the draft       *)
(* buffer as they were, and running it again on the inputs as the first    *)
(* run left them yields the same sequence of blocks.                       *)
(***************************************************************************)
RerunSameBlocks ==
    pc = "rendered" => activityBlocks(activities, newComments) = blocks

RunLeavesInputs ==
    (pc = "input" /\ pc' = "rendered")
    => /\ activities' = activities
       /\ newComments' = newComments

DraftOffset == IF Len(newComments) > 0 THEN 1 ELSE 0

HeadsOf(bs) == [i \in 1..Len(bs) |-> bs[i][1].payload]

FetchedHeads == SubSeq(HeadsOf(blocks), DraftOffset + 1, Len(blocks))

FetchedBlocksOrdered ==
    Rendered =>
        /\ \A i, j \in 1..Len(FetchedHeads) :
              i < j => FetchedHeads[i].edited >= FetchedHeads[j].edited
        /\ FetchedHeads =
              SelectSeq(HeadsOf(threadBlocks(activities)),
                        LAMBDA r : r \in Range(FetchedHeads))

\* three roots delivered oldest first, two of them title changes that were
\* coalesced around a user comment
RootsReorderedAndCoalesced ==
    /\ pc = "rendered"
    /\ newComments = <<>>
    /\ Len(Fetched) = 3
    /\ \A i \in 1..3 : isRoot(Fetched[i])
    /\ Fetched[1].edited < Fetched[2].edited
    /\ isTitleChangeRecord(Fetched[2]) /\ isTitleChangeRecord(Fetched[3])
    /\ Len(blocks) = 2

(***************************************************************************)
(* C14: the coalesced title_change block is headed by the title_change     *)
(* root with the greatest edited timestamp and stands where that root      *)
(* stands among the sorted roots; after that root's own elements come the  *)
(* elements of every other title_change block, block after block, in       *)
(* descending order of the roots' edited timestamps.                       *)
(***************************************************************************)
PayloadsOf(block) == [j \in 1..Len(block) |-> block[j].payload]

\* a root followed by the fetched records that name it as their parent
ThreadOf(root) ==
    <<root>> \o SelectSeq(Fetched, LAMBDA a : a.parent_id = root.id)

SortedRoots == orderBy(SelectSeq(Fetched, isRoot))

SortedTitleChanges == SelectSeq(SortedRoots, isTitleChangeRecord)

CoalescedBlockShape ==
    (Rendered /\ TitleChangeRecords # {}) =>
        \E i \in 1..Len(blocks) :
            /\ isTitleChange(blocks[i])
            /\ blocks[i][1].payload = SortedTitleChanges[1]
            /\ \A t \in TitleChangeRecords :
                  blocks[i][1].payload.edited >= t.edited
            /\ SortedRoots[i - DraftOffset] = blocks[i][1].payload
            /\ PayloadsOf(blocks[i]) =
                  Flatten([k \in 1..Len(SortedTitleChanges) |->
                              ThreadOf(SortedTitleChanges[k])])
            /\ \A k \in 1..(Len(SortedTitleChanges) - 1) :
                  SortedTitleChanges[k].edited >= SortedTitleChanges[k + 1].edited

\* the older of two title changes was delivered first and has a reply: the
\* block is the newer one, then the older one, then the reply
OlderTitleChangeAbsorbed ==
    /\ pc = "rendered"
    /\ Len(Fetched) = 3
    /\ isTitleChangeRecord(Fetched[1]) /\ isTitleChangeRecord(Fetched[2])
    /\ Fetched[1].edited < Fetched[2].edited
    /\ Fetched[3].parent_id = Fetched[1].id
    /\ Len(blocks) = 1 + DraftOffset
    /\ PayloadsOf(blocks[Len(blocks)]) = <<Fetched[2], Fetched[1], Fetched[3]>>

(***************************************************************************)
(* C15: in every block headed by a fetched user comment the replies follow *)
(* the root in the order in which the fetch delivered them, whatever their *)
(* edited and created timestamps are.                                      *)
(***************************************************************************)
RepliesInFetchOrder ==
    Rendered =>
        \A i \in 1..Len(blocks) :
            (/\ blocks[i][1].payload \in Range(Fetched)
             /\ ~ isSystemComment(blocks[i]))
            => PayloadsOf(blocks[i]) = ThreadOf(blocks[i][1].payload)

\* a thread whose first delivered reply was edited before the second one
OlderReplyDeliveredFirst ==
    /\ pc = "rendered"
    /\ \E i \in 1..Len(blocks) :
            /\ blocks[i][1].payload \in Range(Fetched)
            /\ ~ isSystemComment(blocks[i])
            /\ Len(blocks[i]) = 3
            /\ blocks[i][2].payload.edited < blocks[i][3].payload.edited

(***************************************************************************)
(* C16: while the component stays mounted a set commentCreated flag is     *)
(* eventually reset to false, also when a further creation succeeds while  *)
(* it is set; and every step that resets it is the answer to a refetch or  *)
(* the firing of the last timer of the 300 ms, 5000 ms, 2000 ms chain.     *)
(***************************************************************************)
FlagReset == commentCreated /\ ~ commentCreated'

ChainElapsed == pending = ResetDelay /\ pending' = 0

FlagEventuallyReset ==
    /\ (Mounted /\ commentCreated) ~> (~ commentCreated \/ ~ Mounted)
    /\ [][FlagReset => (RefetchAnswered \/ ChainElapsed)]_vars

\* a second creation succeeded while the flag was set, and the flag has
\* been reset since
FlagResetAfterSecondCreation ==
    /\ Mounted /\ ~ commentCreated
    /\ \E c \in 1..Len(calls) : Returned(c) /\ calls[c].highlighted

(***************************************************************************)
(* C17: whichever of the three chained timers is scheduled when the        *)
(* effect's cleanup runs at teardown, no timer is scheduled afterwards, so *)
(* no timer callback fires and the flag is not written after teardown;     *)
(* the teardown step leaves every request in flight as it is.              *)
(***************************************************************************)
Teardown == Mounted /\ pc' = "unmounted"

NoTimerAfterTeardown == pc = "unmounted" => pending = 0

NoTimerCallbackAfterTeardown ==
    pc = "unmounted" => /\ pending' = pending
                        /\ commentCreated' = commentCreated

TeardownLeavesRequests == Teardown => (calls' = calls /\ server' = server)

ThenRuns(c) ==
    /\ c \in 1..Len(calls)
    /\ calls[c].at = "responded" /\ calls[c].status = "ok"
    /\ calls'[c].at = "done"

StepOf(c) == c \in 1..Len(calls) /\ calls'[c] # calls[c]

FetchAnswered == fetching /\ ~ fetching'

DraftBufferOnlyAppended ==
    /\ newComments' # newComments =>
          \E c \in 1..MaxCalls :
              /\ ThenRuns(c) /\ isTopLevel(c)
              /\ newComments' = Append(newComments, ResponseOf(c))
    /\ Len(newComments') >= Len(newComments)

FetchedListOnlyFetched == activities' # activities => FetchAnswered

OtherPathsWriteNeither ==
    \A c \in 1..MaxCalls :
        (StepOf(c) /\ (~ isTopLevel(c) \/ CatchRuns(c)))
        => UNCHANGED <<activities, newComments>>

OneWriterEach ==
    [][/\ DraftBufferOnlyAppended
       /\ FetchedListOnlyFetched
       /\ OtherPathsWriteNeither]_vars

(***************************************************************************)
(* C19: with several invocations in flight, what an invocation returns is  *)
(* decided by the answer to its own request alone: success is true exactly *)
(* when its own request was accepted, updatedItem is the mapping of its    *)
(* own response body (absent for a Delete or a failure), and a step of one *)
(* invocation leaves the locals of every other invocation as they were.    *)
(***************************************************************************)
InFlight(c) == calls[c].at \in {"sent", "responded"}

OwnResponseDecides ==
    \A c \in 1..Len(calls) :
        Returned(c) =>
            /\ calls[c].result = (calls[c].status = "ok")
            /\ calls[c].updatedItem =
                  IF calls[c].status = "ok" /\ calls[c].action # DELETE
                  THEN {activityToCommentItem(ResponseOf(c))}
                  ELSE Undefined

LocalsArePrivate ==
    \A c, d \in 1..Len(calls) :
        (c # d /\ StepOf(c))
        => /\ calls'[d].result = calls[d].result
           /\ calls'[d].updatedItem = calls[d].updatedItem

ReturnsOwnOutcome ==
    /\ [] OwnResponseDecides
    /\ [][LocalsArePrivate]_vars

\* a top-level submission has failed and returned (false, absent) while the
\* reply to the fetched thread, begun before it and accepted by the
\* backend, is still in flight with its own result untouched
FailedWhileOtherInFlight ==
    /\ Len(calls) = 2
    /\ calls[1].box = "thread" /\ calls[1].action = REPLY
    /\ InFlight(1) /\ calls[1].status = "ok" /\ calls[1].result = TRUE
    /\ isTopLevel(2) /\ Returned(2) /\ calls[2].status = "err"
    /\ calls[2].result = FALSE /\ calls[2].updatedItem = Undefined

(***************************************************************************)
(* C20: every displayed system block has a presentation: for type merge    *)
(* and for type title_change their own one, without a warning; for every   *)
(* other type, also a missing one, the generic presentation showing the    *)
(* type, with exactly one warning.                                         *)
(***************************************************************************)
SystemDispatchTotal ==
    pc = "displayed" =>
        /\ Len(views) = Len(blocks)
        /\ \A i \in 1..Len(blocks) :
              isSystemComment(blocks[i]) =>
                LET type == blocks[i][1].payload.type
                IN /\ type = MERGE =>
                        (views[i].view = "merge" /\ views[i].warnings = 0)
                   /\ type = TITLE_CHANGE =>
                        (views[i].view = "title-change" /\ views[i].warnings = 0)
                   /\ type \notin {MERGE, TITLE_CHANGE} =>
                        /\ views[i].view = "generic"
                        /\ views[i].shown = type
                        /\ views[i].warnings = 1

\* a system block without a type and a merge block have been displayed
UntypedAndMergeDisplayed ==
    /\ pc = "displayed"
    /\ Len(blocks) = 2
    /\ isSystemComment(blocks[1]) /\ blocks[1][1].payload.type = NoType
    /\ isSystemComment(blocks[2]) /\ blocks[2][1].payload.type = MERGE
    /\ views[1].warnings = 1 /\ views[2].warnings = 0

(***************************************************************************)
(* C21: every block the assembler returns has at least one element, for    *)
(* every fetched list, an absent and an empty one included, and every      *)
(* draft buffer, an empty one included.                                    *)
(***************************************************************************)
BlocksNonEmpty ==
    Rendered => \A i \in 1..Len(blocks) : Len(blocks[i]) >= 1

\* no list was fetched and the buffer holds one draft: one block of one
\* element
AbsentListOneDraft ==
    /\ pc = "rendered"
    /\ activities = Undefined
    /\ Len(newComments) = 1
    /\ Len(blocks) = 1 /\ Len(blocks[1]) = 1

(***************************************************************************)
(* C23: fetched records and drafts carrying distinct ids, every fetched    *)
(* root, every fetched reply whose parent_id is the id of a fetched root,  *)
(* and every draft is shown exactly once.                                  *)
(***************************************************************************)
isThreaded(a) ==
    \/ isRoot(a)
    \/ \E r \in Range(Fetched) : isRoot(r) /\ r.id = a.parent_id

RecordsConserved ==
    Rendered =>
        /\ \A a \in Range(Fetched) : isThreaded(a) => Occurrences(Shown, a) = 1
        /\ \A d \in Range(newComments) : Occurrences(Shown, d) = 1

\* two title changes, the older one with a reply, were coalesced below a
\* block of two drafts: five records, each shown once
CoalescedBelowDrafts ==
    /\ pc = "rendered"
    /\ Len(newComments) = 2
    /\ Len(Fetched) = 3
    /\ isTitleChangeRecord(Fetched[1]) /\ isTitleChangeRecord(Fetched[2])
    /\ Fetched[1].edited < Fetched[2].edited
    /\ Fetched[3].parent_id = Fetched[1].id
    /\ Len(blocks) = 2
    /\ Len(Shown) = 5

(***************************************************************************)
(* C22: the checks table holds at most one row per natural key (repo id,   *)
(* commit sha, uid).  A successful Upsert on a key that is stored changes  *)
(* that row only: it keeps its check_id, check_created_by and              *)
(* check_created, takes updated, status, summary, link, payload (with its  *)
(* kind and version) and metadata from the call, and the caller's check    *)
(* gets the stored id, creator and creation time.  A successful Upsert on  *)
(* a key that is not stored adds exactly one row, with a fresh id and the  *)
(* call's values, and the caller's check gets that id.                     *)
(***************************************************************************)
KeyOf(row) == <<row.RepoID, row.CommitSHA, row.UID>>

OneRowPerKey ==
    \A r1, r2 \in checks :
        (KeyOf(r1) = KeyOf(r2) \/ r1.ID = r2.ID) => r1 = r2

\* the row carries what the call reported
Reported(row, m) ==
    /\ row.Updated = m.Updated /\ row.Status = m.Status
    /\ row.Summary = m.Summary /\ row.Link = m.Link
    /\ row.Payload = m.Payload /\ row.Metadata = m.Metadata
    /\ row.PayloadKind = m.PayloadKind /\ row.PayloadVersion = m.PayloadVersion

\* the caller's check is the one passed, with the stored id, creator and
\* creation time
Returns(call, row) ==
    call.check = [call.arg EXCEPT !.ID = row.ID, !.CreatedBy = row.CreatedBy,
                                  !.Created = row.Created]

UpsertEffect ==
    (pc = "store" /\ clock' # clock) =>
        LET call == CHOOSE u \in lastUpsert' : TRUE
            m == mapInternalCheck(call.arg)
            stored == {r \in checks : KeyOf(r) = KeyOf(m)}
        IN ~ call.err =>
            IF stored = {}
            THEN \E new \in checks' \ checks :
                    /\ checks' = checks \cup {new}
                    /\ KeyOf(new) = KeyOf(m)
                    /\ new.ID \notin {r.ID : r \in checks}
                    /\ new.CreatedBy = m.CreatedBy /\ new.Created = m.Created
                    /\ Reported(new, m)
                    /\ Returns(call, new)
            ELSE \E old \in stored : \E now \in checks' :
                    /\ checks' = (checks \ {old}) \cup {now}
                    /\ KeyOf(now) = KeyOf(old)
                    /\ now.ID = old.ID
                    /\ now.CreatedBy = old.CreatedBy /\ now.Created = old.Created
                    /\ Reported(now, m)
                    /\ Returns(call, now)

UpsertKeyed ==
    /\ [] OneRowPerKey
    /\ [][UpsertEffect]_vars

\* with two checks stored, another principal has reported a new status for
\* one of them: the caller got back the first reporter and creation time
StoredCheckReportedAgain ==
    /\ pc = "store"
    /\ Cardinality(checks) = 2
    /\ \E call \in lastUpsert : \E row \in checks :
          /\ ~ call.err
          /\ KeyOf(row) = KeyOf(call.arg)
          /\ call.arg.CreatedBy # row.CreatedBy
          /\ call.arg.Created # row.Created
          /\ call.check.CreatedBy = row.CreatedBy
          /\ call.check.ID = row.ID
          /\ row.Status = call.arg.Status /\ row.Updated = call.arg.Updated

=============================================================================
